---- MODULE Spec2Model ----
(***************************************************************************)
(* Model of the GrayShop utility-bill ledger: the billing calendar         *)
(* (src/app/services.py), the month ledger (close / reopen) and the        *)
(* request handlers of src/main.py that mutate bills, month statuses and   *)
(* settings.                                                               *)
(*                                                                         *)
(* Dates are records [year, month, day]; Python's None is NoDate.          *)
(* Amounts are integers counted in hundredths (Decimal quantized to 0.01). *)
(* A datetime (closed_at) is kept at the resolution of the model's clock,  *)
(* which is one day.  The columns created_at and apartment_id of a bill    *)
(* are not modelled: no handler modelled here reads them.                  *)
(***************************************************************************)
EXTENDS Integers, Sequences, FiniteSets, TLC

VARIABLES
    bills,          \* table utility_bills: id -> row
    billingMonths,  \* table billing_months: billing_month -> row
    settings,       \* table settings: the singleton row
    utilityTypes,   \* table utility_types: code -> is_active
    today,          \* the clock: what date.today() returns
    ticks,          \* number of days the clock has advanced
    response,       \* the last request served: handler, HTTP status, error, month
    apartments,     \* table apartments: id -> row
    session,        \* the open transaction of a close / reopen served step by step
    requests,       \* two sessions served concurrently: session -> what its handler holds
    calIn,          \* calendar harness: the date the functions are applied to
    calCut,         \* calendar harness: the billing-day cutoff argument
    calOps,         \* calendar harness: the functions applied so far
    calOut          \* calendar harness: the value they produced

vars == <<bills, billingMonths, settings, utilityTypes, today, ticks,
          response, apartments, session, requests, calIn, calCut, calOps, calOut>>

storeVars == <<bills, billingMonths, settings, utilityTypes, today, ticks, response,
               apartments, session, requests>>
calVars == <<calIn, calCut, calOps, calOut>>
\* what the bill, month and settings handlers served in one step leave alone
idleVars == <<apartments, session, requests, calVars>>

----------------------------------------------------------------------------
(* Bounds *)

\* number of calendar years the calendar harness draws its dates from
MaxCalYears == 2
\* largest primary key the bills table may hand out
MaxBillId == 2
\* number of days the clock may advance
MaxTicks == 1
MaxApartmentId == 3

----------------------------------------------------------------------------
(* Dates *)

Date(y, m, d) == [year |-> y, month |-> m, day |-> d]

NoDate == Date(0, 0, 0)

IsLeap(y) == (y % 4 = 0 /\ y % 100 # 0) \/ y % 400 = 0

DaysInMonth(y, m) ==
    IF m = 2 THEN (IF IsLeap(y) THEN 29 ELSE 28)
    ELSE IF m \in {4, 6, 9, 11} THEN 30 ELSE 31

IsValidDate(y, m, d) == m \in 1..12 /\ d >= 1 /\ d <= DaysInMonth(y, m)

DateLess(a, b) ==
    \/ a.year < b.year
    \/ a.year = b.year /\ a.month < b.month
    \/ a.year = b.year /\ a.month = b.month /\ a.day < b.day

NextDay(d) ==
    IF d.day < DaysInMonth(d.year, d.month) THEN Date(d.year, d.month, d.day + 1)
    ELSE IF d.month = 12 THEN Date(d.year + 1, 1, 1)
    ELSE Date(d.year, d.month + 1, 1)

----------------------------------------------------------------------------
(* BillingCalendar: src/app/services.py *)

first_of_month(value) == [value EXCEPT !.day = 1]

next_month_NoRollover(value) ==
    Date(value.year, value.month + 1, 1)

next_month(value) ==
    IF value.month = 12 THEN Date(value.year + 1, 1, 1)
    ELSE Date(value.year, value.month + 1, 1)

prev_month_NoRollover(value) ==
    Date(value.year, value.month - 1, 1)

prev_month(value) ==
    IF value.month = 1 THEN Date(value.year - 1, 12, 1)
    ELSE Date(value.year, value.month - 1, 1)

compute_billing_month_Strict(received_date, billing_day) ==
    LET month == first_of_month(received_date)
    IN  IF received_date.day < billing_day THEN month ELSE next_month(month)

compute_billing_month(received_date, billing_day) ==
    LET month == first_of_month(received_date)
    IN  IF received_date.day <= billing_day THEN month ELSE next_month(month)

current_billing_month_Strict(today_, billing_day) ==
    LET month == first_of_month(today_)
    IN  IF today_.day < billing_day THEN month ELSE next_month(month)

current_billing_month(today_, billing_day) ==
    LET month == first_of_month(today_)
    IN  IF today_.day <= billing_day THEN month ELSE next_month(month)

validate_month_first(value) == value.day = 1

----------------------------------------------------------------------------
(* Calendar harness: the pure functions applied to every date of a few     *)
(* years and every cutoff the settings form accepts.                       *)

CalYears == 2023 .. (2022 + MaxCalYears)

CalDates == {dt \in [year : CalYears, month : 1..12, day : 1..31] :
                IsValidDate(dt.year, dt.month, dt.day)}

CalCutoffs == 1..28

----------------------------------------------------------------------------
(* Form input.  A date string is the format it is written in and the       *)
(* numbers it carries; fmt "junk" is a string no format matches.           *)

RawDate(f, y, m, d) == [fmt |-> f, year |-> y, month |-> m, day |-> d]

candidates == <<"%Y-%m", "%Y-%m-%d", "%m/%Y", "%m-%Y", "%m.%Y">>

\* datetime.strptime(raw, pattern).date(): a missing day field defaults to 1
strptime(raw, pattern) ==
    IF pattern = "%Y-%m-%d"
    THEN [ok |-> raw.fmt = pattern /\ IsValidDate(raw.year, raw.month, raw.day),
          value |-> Date(raw.year, raw.month, raw.day)]
    ELSE [ok |-> raw.fmt = pattern /\ raw.month \in 1..12,
          value |-> Date(raw.year, raw.month, 1)]

RECURSIVE first_match(_, _)
\* the loop over candidates: the index of the first pattern that parses raw,
\* 0 when none does
first_match(raw, i) ==
    IF i > Len(candidates) THEN 0
    ELSE IF strptime(raw, candidates[i]).ok THEN i
    ELSE first_match(raw, i + 1)

\* a mutant: the parsed date is returned with the day as written
parse_date_KeepDay(raw) ==
    LET i == first_match(raw, 1)
    IN  IF i = 0 THEN [ok |-> FALSE, value |-> NoDate]
        ELSE [ok |-> TRUE, value |-> strptime(raw, candidates[i]).value]

\* main.py parse_date: the first candidate that parses, normalized to day 1;
\* ok = FALSE is HTTPException(400)
parse_date(raw) ==
    LET i == first_match(raw, 1)
    IN  IF i = 0 THEN [ok |-> FALSE, value |-> NoDate]
        ELSE LET d == strptime(raw, candidates[i]).value
             IN  [ok |-> TRUE, value |-> Date(d.year, d.month, 1)]

\* parse_month has no definition in main.py; bill_save checks its result with
\* validate_month_first, so it is taken to return the date as written
parse_month(raw) ==
    LET i == first_match(raw, 1)
    IN  IF i = 0 THEN [ok |-> FALSE, value |-> NoDate]
        ELSE [ok |-> TRUE, value |-> strptime(raw, candidates[i]).value]

\* Optional[int] form field: None, or an integer
None == [given |-> FALSE, v |-> 0]
Some(i) == [given |-> TRUE, v |-> i]

\* Decimal(amount): ok = FALSE is a string Decimal() cannot parse
RawAmount(parses, c) == [ok |-> parses, cents |-> c]

----------------------------------------------------------------------------
(* Tables *)

\* a row as bill_save writes it: unpaid; the note "" stands for None (note or None)
UtilityBill(utility_type, consumption, received, amount, billing_month, note) ==
    [utility_type |-> utility_type, consumption_month |-> consumption,
     received_date |-> received, amount |-> amount,
     billing_month |-> billing_month, note |-> note,
     is_paid |-> FALSE, paid_date |-> NoDate]

BillingMonth(closed, at) == [is_closed |-> closed, closed_at |-> at]

Setting(rent, day, year) == [rent_amount |-> rent, billing_day |-> day, active_year |-> year]

\* session.get(BillingMonth, month) is a row that has is_closed set
IsClosed(months, month) == month \in DOMAIN months /\ months[month].is_closed

\* the rowid SQLite gives the next inserted bill: one more than the largest
NewBillId(bs) == IF DOMAIN bs = {} THEN 1
                 ELSE 1 + (CHOOSE k \in DOMAIN bs : \A j \in DOMAIN bs : j <= k)

Response(op, status, detail, month) ==
    [op |-> op, status |-> status, detail |-> detail, month |-> month]

----------------------------------------------------------------------------
(* MonthLedger: src/app/services.py *)

\* the row of month is created Open when there is none
ensure_billing_month(months, month) ==
    IF month \in DOMAIN months THEN months
    ELSE months @@ (month :> BillingMonth(FALSE, NoDate))

close_billing_month_KeepPaid(months, bs, month, now) ==
    [billingMonths |-> [ensure_billing_month(months, month) EXCEPT
                            ![month] = BillingMonth(TRUE, now)],
     bills |-> [id \in DOMAIN bs |->
                    IF bs[id].billing_month = month /\ ~bs[id].is_paid
                    THEN [bs[id] EXCEPT !.is_paid = TRUE, !.paid_date = now]
                    ELSE bs[id]]]

close_billing_month_SkipBills(months, bs, month, now) ==
    [billingMonths |-> [ensure_billing_month(months, month) EXCEPT
                            ![month] = BillingMonth(TRUE, now)],
     bills |-> bs]

\* a mutant: the select has no where clause, every bill is stamped paid
close_billing_month_EveryBill(months, bs, month, now) ==
    [billingMonths |-> [ensure_billing_month(months, month) EXCEPT
                            ![month] = BillingMonth(TRUE, now)],
     bills |-> [id \in DOMAIN bs |-> [bs[id] EXCEPT !.is_paid = TRUE, !.paid_date = now]]]

\* closed_at = utcnow(), paid_date = date.today(): both the clock's date
close_billing_month(months, bs, month, now) ==
    [billingMonths |-> [ensure_billing_month(months, month) EXCEPT
                            ![month] = BillingMonth(TRUE, now)],
     bills |-> [id \in DOMAIN bs |->
                    IF bs[id].billing_month = month
                    THEN [bs[id] EXCEPT !.is_paid = TRUE, !.paid_date = now]
                    ELSE bs[id]]]

reopen_billing_month_KeepPaidDate(months, bs, month) ==
    [billingMonths |-> [ensure_billing_month(months, month) EXCEPT
                            ![month] = BillingMonth(FALSE, NoDate)],
     bills |-> [id \in DOMAIN bs |->
                    IF bs[id].billing_month = month
                    THEN [bs[id] EXCEPT !.is_paid = FALSE]
                    ELSE bs[id]]]

reopen_billing_month_SkipBills(months, bs, month) ==
    [billingMonths |-> [ensure_billing_month(months, month) EXCEPT
                            ![month] = BillingMonth(FALSE, NoDate)],
     bills |-> bs]

reopen_billing_month(months, bs, month) ==
    [billingMonths |-> [ensure_billing_month(months, month) EXCEPT
                            ![month] = BillingMonth(FALSE, NoDate)],
     bills |-> [id \in DOMAIN bs |->
                    IF bs[id].billing_month = month
                    THEN [bs[id] EXCEPT !.is_paid = FALSE, !.paid_date = NoDate]
                    ELSE bs[id]]]

----------------------------------------------------------------------------
(* Request input sets *)

BillIdInputs == {None} \cup {Some(i) : i \in 0..MaxBillId}

BillForm(b, t, c, r, a, n) ==
    [bill_id |-> b, utility_type |-> t, consumption_month |-> c,
     received_date |-> r, amount |-> a, note |-> n]

\* forms that pass validation once their received date is not in the future:
\* one received in December 2023 and one in January 2024 under every bill id,
\* and one received in November 2023 that edits bill 1
ValidBillForms ==
    {BillForm(b, "electricity", RawDate("%Y-%m", 2023, 11, 0),
              RawDate("%Y-%m-%d", 2023, 12, 20), RawAmount(TRUE, 4550), "")
        : b \in BillIdInputs}
    \cup {BillForm(b, "gas", RawDate("%m.%Y", 2023, 12, 0),
                   RawDate("%m/%Y", 2024, 1, 0), RawAmount(TRUE, 30000), "")
        : b \in BillIdInputs}
    \cup {BillForm(Some(1), "water", RawDate("%Y-%m-%d", 2023, 10, 1),
                   RawDate("%Y-%m-%d", 2023, 11, 9), RawAmount(TRUE, 1200), "late")}

\* forms that fail validation: an unknown type, a consumption month that is
\* not a first of month or does not parse, an amount that is zero or does not
\* parse, a received date that does not parse or names no calendar day
InvalidBillForms ==
    LET r == RawDate("%Y-%m-%d", 2023, 12, 20)
        c == RawDate("%Y-%m", 2023, 11, 0)
        a == RawAmount(TRUE, 4550)
    IN  {BillForm(None, "internet", c, r, a, ""),
         BillForm(Some(1), "water", RawDate("%Y-%m-%d", 2023, 11, 15), r, a, ""),
         BillForm(None, "water", RawDate("junk", 0, 0, 0), r, a, ""),
         BillForm(Some(1), "water", c, r, RawAmount(TRUE, 0), ""),
         BillForm(None, "water", c, r, RawAmount(FALSE, 0), ""),
         BillForm(Some(1), "water", c, RawDate("junk", 0, 0, 0), a, ""),
         BillForm(None, "water", c, RawDate("%Y-%m-%d", 2023, 11, 31), a, "")}

BillForms == ValidBillForms \cup InvalidBillForms

MonthInputs ==
    {RawDate("%Y-%m", 2023, 12, 0), RawDate("%Y-%m-%d", 2024, 1, 15),
     RawDate("junk", 0, 0, 0)}

SettingsForms ==
    {[rent_amount |-> RawAmount(FALSE, 0), billing_day |-> 28, active_year |-> 2024],
     [rent_amount |-> RawAmount(TRUE, 50000), billing_day |-> 0, active_year |-> 2024],
     [rent_amount |-> RawAmount(TRUE, 50000), billing_day |-> 28, active_year |-> 2024],
     [rent_amount |-> RawAmount(TRUE, 50000), billing_day |-> 29, active_year |-> 2024]}

----------------------------------------------------------------------------
(* Request handlers: src/main.py *)

\* a mutant: any known code passes, active or not
TypeRejected_ExistsOnly(types, form) ==
    form.utility_type \notin DOMAIN types

\* line 314: the submitted type is not among the active codes
TypeRejected(types, form) ==
    form.utility_type \notin {c \in DOMAIN types : types[c]}

\* lines 326-368: the fields do not parse, the consumption month is not a
\* first of month, the received date is in the future, the amount is not positive
InputRejected(consumption, received, amount, now) ==
    \/ ~consumption.ok \/ ~received.ok \/ ~amount.ok
    \/ ~validate_month_first(consumption.value)
    \/ DateLess(now, received.value)
    \/ amount.cents <= 0

\* line 370: month_status and month_status.is_closed and bill_id is None
NewIntoClosed(months, target, bill_id) ==
    IsClosed(months, target) /\ ~bill_id.given

ExistingMonthClosed_Never(months, bill) == FALSE

\* lines 387-388: the bill being edited sits in a closed month
ExistingMonthClosed(months, bill) ==
    IsClosed(months, bill.billing_month)

MovedIntoClosed_Never(months, target, bill) == FALSE

\* line 390: the edit moves the bill into a closed month
MovedIntoClosed(months, target, bill) ==
    IsClosed(months, target) /\ bill.billing_month # target

Result(status, detail, bs) == [status |-> status, detail |-> detail, bills |-> bs]

\* bill_save from line 369 on: the request has passed validation and targets
\* the billing month target with the row to store
BillSaveStore(bill_id, row, target, bs, months) ==
    IF NewIntoClosed(months, target, bill_id)
    THEN Result(400, "Obracunski mjesec je zatvoren", bs)
    ELSE IF bill_id.given /\ bill_id.v # 0
         THEN IF bill_id.v \notin DOMAIN bs
              THEN Result(404, "Racun nije pronadjen", bs)
              ELSE IF ExistingMonthClosed(months, bs[bill_id.v])
                   THEN Result(400, "Racun iz zatvorenog mjeseca nije moguce mijenjati", bs)
              ELSE IF MovedIntoClosed(months, target, bs[bill_id.v])
                   THEN Result(400, "Ciljani obracunski mjesec je zatvoren", bs)
              ELSE Result(303, "", [bs EXCEPT ![bill_id.v] = row])
    ELSE Result(303, "", bs @@ (NewBillId(bs) :> row))

\* the billing month of a received date under the configured cutoff
BillingMonthOf(received, st) == compute_billing_month(received, st.billing_day)

\* bill_save once the type is accepted and the fields are parsed
BillSaveParsed(form, consumption, received, bs, months, st, now) ==
    IF InputRejected(consumption, received, form.amount, now)
    THEN Result(400, "invalid input", bs)
    ELSE BillSaveStore(form.bill_id,
                       UtilityBill(form.utility_type, consumption.value, received.value,
                                   form.amount.cents,
                                   BillingMonthOf(received.value, st), form.note),
                       BillingMonthOf(received.value, st), bs, months)

\* bill_save: the HTTP status, the error shown and the bills table after the request
BillSaveResult(form, bs, months, st, types, now) ==
    IF TypeRejected(types, form)
    THEN Result(400, "Odabrani tip rezije nije valjan", bs)
    ELSE BillSaveParsed(form, parse_month(form.consumption_month),
                        parse_date(form.received_date), bs, months, st, now)

\* a mutant: a successful save creates the status record of its target month
bill_save_EnsuresMonth(form) ==
    \E r \in {BillSaveResult(form, bills, billingMonths, settings, utilityTypes, today)} :
        /\ DOMAIN r.bills \subseteq 1..MaxBillId
        /\ bills' = r.bills
        /\ billingMonths' =
               IF r.status = 303
               THEN ensure_billing_month(billingMonths,
                        BillingMonthOf(parse_date(form.received_date).value, settings))
               ELSE billingMonths
        /\ response' = Response("bill_save", r.status, r.detail, NoDate)
        /\ UNCHANGED <<settings, utilityTypes, today, ticks, idleVars>>

bill_save(form) ==
    \E r \in {BillSaveResult(form, bills, billingMonths, settings, utilityTypes, today)} :
        /\ DOMAIN r.bills \subseteq 1..MaxBillId
        /\ bills' = r.bills
        /\ response' = Response("bill_save", r.status, r.detail, NoDate)
        /\ UNCHANGED <<billingMonths, settings, utilityTypes, today, ticks, idleVars>>

BillDeleteResult_IgnoreClosed(bill_id, bs, months) ==
    IF bill_id \notin DOMAIN bs THEN Result(404, "Racun nije pronadjen", bs)
    ELSE Result(303, "", [id \in DOMAIN bs \ {bill_id} |-> bs[id]])

\* bill_delete: the HTTP status, the error shown and the bills table after the request
BillDeleteResult(bill_id, bs, months) ==
    IF bill_id \notin DOMAIN bs THEN Result(404, "Racun nije pronadjen", bs)
    ELSE IF IsClosed(months, bs[bill_id].billing_month)
         THEN Result(400, "Racun iz zatvorenog mjeseca nije moguce obrisati", bs)
    ELSE Result(303, "", [id \in DOMAIN bs \ {bill_id} |-> bs[id]])

bill_delete(bill_id) ==
    \E r \in {BillDeleteResult(bill_id, bills, billingMonths)} :
        /\ bills' = r.bills
        /\ response' = Response("bill_delete", r.status, r.detail, NoDate)
        /\ UNCHANGED <<billingMonths, settings, utilityTypes, today, ticks, idleVars>>

close_month(month) ==
    LET billing_month == parse_date(month)
        r == close_billing_month(billingMonths, bills, billing_month.value, today)
    IN  /\ IF billing_month.ok
           THEN /\ billingMonths' = r.billingMonths
                /\ bills' = r.bills
                /\ response' = Response("close_month", 303, "", billing_month.value)
           ELSE /\ UNCHANGED <<billingMonths, bills>>
                /\ response' = Response("close_month", 400, "Neispravan mjesec", NoDate)
        /\ UNCHANGED <<settings, utilityTypes, today, ticks, idleVars>>

reopen_month(month) ==
    LET billing_month == parse_date(month)
        r == reopen_billing_month(billingMonths, bills, billing_month.value)
    IN  /\ IF billing_month.ok
           THEN /\ billingMonths' = r.billingMonths
                /\ bills' = r.bills
                /\ response' = Response("reopen_month", 303, "", billing_month.value)
           ELSE /\ UNCHANGED <<billingMonths, bills>>
                /\ response' = Response("reopen_month", 400, "Neispravan mjesec", NoDate)
        /\ UNCHANGED <<settings, utilityTypes, today, ticks, idleVars>>

\* a mutant: only the lower limit of the cutoff day is tested
settings_save_NoUpperLimit(form) ==
    /\ IF ~form.rent_amount.ok
       THEN /\ UNCHANGED settings
            /\ response' = Response("settings_save", 400, "Neispravan iznos najamnine.", NoDate)
       ELSE IF form.billing_day < 1
       THEN /\ UNCHANGED settings
            /\ response' = Response("settings_save", 400,
                                    "Dan obracuna mora biti izmedu 1 i 28.", NoDate)
       ELSE /\ settings' = Setting(form.rent_amount.cents, form.billing_day,
                                   form.active_year)
            /\ response' = Response("settings_save", 303, "", NoDate)
    /\ UNCHANGED <<bills, billingMonths, utilityTypes, today, ticks, idleVars>>

\* POST /settings/save
settings_save(form) ==
    /\ IF ~form.rent_amount.ok
       THEN /\ UNCHANGED settings
            /\ response' = Response("settings_save", 400, "Neispravan iznos najamnine.", NoDate)
       ELSE IF form.billing_day < 1 \/ form.billing_day > 28
       THEN /\ UNCHANGED settings
            /\ response' = Response("settings_save", 400,
                                    "Dan obracuna mora biti izmedu 1 i 28.", NoDate)
       ELSE /\ settings' = Setting(form.rent_amount.cents, form.billing_day,
                                   form.active_year)
            /\ response' = Response("settings_save", 303, "", NoDate)
    /\ UNCHANGED <<bills, billingMonths, utilityTypes, today, ticks, idleVars>>

\* midnight passes: date.today() moves to the next day
Tick ==
    /\ ticks < MaxTicks
    /\ ticks' = ticks + 1
    /\ today' = NextDay(today)
    /\ UNCHANGED <<bills, billingMonths, settings, utilityTypes, response, idleVars>>

----------------------------------------------------------------------------
(* The store after startup: init_db has created the settings row and the   *)
(* four utility types; no bill and no month status exists.                 *)

StartDate == Date(2023, 12, 31)

\* the two sessions of the concurrent service, and none of them serving a request
Sessions == {1, 2}

Idle == [pc |-> "idle", op |-> "", target |-> NoDate, row |-> << >>, apartment_id |-> 0]

NoRequests == [s \in Sessions |-> Idle]

\* no transaction is open; op, month and dirty remember the last one rolled back
NoSession ==
    [pc |-> "idle", op |-> "", month |-> NoDate, now |-> NoDate,
     billingMonths |-> << >>, bills |-> << >>, todo |-> {}, dirty |-> FALSE]

InitStore ==
    /\ bills = << >>
    /\ billingMonths = << >>
    /\ settings = Setting(0, 10, StartDate.year)
    /\ utilityTypes = [c \in {"electricity", "water", "gas", "waste"} |-> TRUE]
    /\ today = StartDate
    /\ ticks = 0
    /\ response = Response("startup", 0, "", NoDate)
    /\ apartments = << >>
    /\ session = NoSession
    /\ requests = NoRequests

InitCalIdle ==
    /\ calIn = NoDate
    /\ calCut = 0
    /\ calOps = << >>
    /\ calOut = NoDate

Init == InitStore /\ InitCalIdle

Next ==
    \/ \E form \in BillForms : bill_save(form)
    \/ \E bill_id \in 0..MaxBillId : bill_delete(bill_id)
    \/ \E month \in MonthInputs : close_month(month)
    \/ \E month \in MonthInputs : reopen_month(month)
    \/ \E form \in SettingsForms : settings_save(form)
    \/ Tick

Spec == Init /\ [][Next]_vars

\* ---- units (apartments) ----
\* error texts are written without diacritics

Apartment(name, is_active) == [name |-> name, is_active |-> is_active]

\* ids are handed out as SQLite does for an INTEGER PRIMARY KEY: largest + 1
NewApartmentId(apts) ==
    IF DOMAIN apts = {} THEN 1
    ELSE (CHOOSE i \in DOMAIN apts : \A j \in DOMAIN apts : j <= i) + 1

\* str.strip(): a name is a sequence of characters, " " is whitespace
RECURSIVE lstrip(_)
lstrip(name) ==
    IF name # << >> /\ Head(name) = " " THEN lstrip(Tail(name)) ELSE name

RECURSIVE rstrip(_)
rstrip(name) ==
    IF name # << >> /\ name[Len(name)] = " "
    THEN rstrip(SubSeq(name, 1, Len(name) - 1))
    ELSE name

strip(name) == rstrip(lstrip(name))

ActiveApartments(apts) == {id \in DOMAIN apts : apts[id].is_active}

\* names posted to /settings/apartment/add
ApartmentNames ==
    {<< >>, <<" ">>, <<"A">>, <<" ", "A", " ">>, <<"B">>, <<"B", " ">>, <<"C">>}

ApartmentIds == 0 .. MaxApartmentId

\* POST /settings/apartment/add
apartment_add(name) ==
    /\ NewApartmentId(apartments) <= MaxApartmentId
    /\ \E apartment_name \in {strip(name)} :
          IF apartment_name = << >>
          THEN /\ response' = Response("apartment_add", 400, "Naziv stana je obavezan.", NoDate)
               /\ UNCHANGED apartments
          ELSE IF \E id \in DOMAIN apartments : apartments[id].name = apartment_name
          THEN /\ response' = Response("apartment_add", 400,
                                       "Stan s tim nazivom vec postoji.", NoDate)
               /\ UNCHANGED apartments
          ELSE /\ apartments' =
                      [id \in DOMAIN apartments \cup {NewApartmentId(apartments)} |->
                          IF id \in DOMAIN apartments THEN apartments[id]
                          ELSE Apartment(apartment_name, TRUE)]
               /\ response' = Response("apartment_add", 303, "", NoDate)
    /\ UNCHANGED <<bills, billingMonths, settings, utilityTypes, today, ticks,
                   session, requests, calVars>>

\* a mutant: the last active unit may go too
apartment_deactivate_NoGuard(apartment_id) ==
    /\ IF apartment_id \notin DOMAIN apartments
       THEN /\ response' = Response("apartment_deactivate", 404, "Stan nije pronaden.", NoDate)
            /\ UNCHANGED apartments
       ELSE /\ apartments' = [apartments EXCEPT ![apartment_id].is_active = FALSE]
            /\ response' = Response("apartment_deactivate", 303, "", NoDate)
    /\ UNCHANGED <<bills, billingMonths, settings, utilityTypes, today, ticks,
                   session, requests, calVars>>

\* POST /settings/apartment/{apartment_id}/deactivate
apartment_deactivate(apartment_id) ==
    /\ IF apartment_id \notin DOMAIN apartments
       THEN /\ response' = Response("apartment_deactivate", 404, "Stan nije pronaden.", NoDate)
            /\ UNCHANGED apartments
       ELSE IF /\ apartments[apartment_id].is_active
               /\ Cardinality(ActiveApartments(apartments)) <= 1
       THEN /\ response' = Response("apartment_deactivate", 400,
                                    "Mora postojati barem jedan aktivan stan.", NoDate)
            /\ UNCHANGED apartments
       ELSE /\ apartments' = [apartments EXCEPT ![apartment_id].is_active = FALSE]
            /\ response' = Response("apartment_deactivate", 303, "", NoDate)
    /\ UNCHANGED <<bills, billingMonths, settings, utilityTypes, today, ticks,
                   session, requests, calVars>>

NextApt ==
    \/ \E name \in ApartmentNames : apartment_add(name)
    \/ \E apartment_id \in ApartmentIds : apartment_deactivate(apartment_id)

SpecApt == Init /\ [][NextApt]_vars

\* ---- utility types and the expected-bills report ----

\* the utility_types rows init_db inserts, in insertion order: the id is the
\* position; names are written without diacritics
UtilityTypeRows ==
    <<[code |-> "electricity", name_hr |-> "Elektricna energija"],
      [code |-> "water", name_hr |-> "Voda"],
      [code |-> "gas", name_hr |-> "Plin"],
      [code |-> "waste", name_hr |-> "Odvoz otpada"]>>

TypeName ==
    [code \in {UtilityTypeRows[k].code : k \in 1 .. Len(UtilityTypeRows)} |->
        UtilityTypeRows[CHOOSE k \in 1 .. Len(UtilityTypeRows) :
                            UtilityTypeRows[k].code = code].name_hr]

\* the codes in the order of `order_by(UtilityType.name_hr)`
TypesByName == <<"electricity", "waste", "gas", "water">>

\* type ids posted to the deactivate route: none, electricity, gas
TypeIdInputs == {0, 1, 3}

\* POST /settings/utility-type/{type_id}/deactivate
utility_type_deactivate(type_id) ==
    /\ IF type_id \notin 1 .. Len(UtilityTypeRows)
       THEN /\ response' = Response("utility_type_deactivate", 404, "Tip nije pronaden.", NoDate)
            /\ UNCHANGED utilityTypes
       ELSE /\ utilityTypes' = [utilityTypes EXCEPT ![UtilityTypeRows[type_id].code] = FALSE]
            /\ response' = Response("utility_type_deactivate", 303, "", NoDate)
    /\ UNCHANGED <<bills, billingMonths, settings, today, ticks, idleVars>>

ExpectedRow(code, name, consumption, received, first_received, charged) ==
    [utility_type |-> code, utility_name |-> name,
     consumption_month |-> consumption, received |-> received,
     first_received_date |-> first_received, charged |-> charged]

\* a mutant: func.max instead of func.min
min_received_date_Latest(bs, ids) ==
    IF ids = {} THEN NoDate
    ELSE bs[CHOOSE i \in ids :
               \A j \in ids : ~DateLess(bs[i].received_date, bs[j].received_date)].received_date

\* func.min(UtilityBill.received_date): NULL over no rows
min_received_date(bs, ids) ==
    IF ids = {} THEN NoDate
    ELSE bs[CHOOSE i \in ids :
               \A j \in ids : ~DateLess(bs[j].received_date, bs[i].received_date)].received_date

\* the aggregate query for one type and consumption month
expected_stats(bs, code, consumption) ==
    LET rows == {id \in DOMAIN bs : /\ bs[id].utility_type = code
                                    /\ bs[id].consumption_month = consumption}
    IN  [received_count |-> Cardinality(rows),
         first_received |-> min_received_date(bs, rows),
         charged_count |-> Cardinality({id \in rows : bs[id].is_paid})]

\* results.append(ExpectedRow(...)) for one type and month
expected_row(code, consumption, bs) ==
    \* stats is evaluated once
    CHOOSE row \in {ExpectedRow(code, TypeName[code], consumption,
                                stats.received_count # 0,
                                stats.first_received,
                                stats.charged_count # 0)
                        : stats \in {expected_stats(bs, code, consumption)}} : TRUE

\* a mutant: the report lists every type, active or not
expected_rows_AllTypes(bs, types, year) ==
    LET active_types == TypesByName
    IN  [i \in 1 .. 12 * Len(active_types) |->
            expected_row(active_types[((i - 1) \div 12) + 1],
                         Date(year, ((i - 1) % 12) + 1, 1), bs)]

\* expected_rows(session, year): the active types by name, twelve months each
expected_rows(bs, types, year) ==
    LET active_types == SelectSeq(TypesByName, LAMBDA c : types[c])
    IN  [i \in 1 .. 12 * Len(active_types) |->
            expected_row(active_types[((i - 1) \div 12) + 1],
                         Date(year, ((i - 1) % 12) + 1, 1), bs)]

\* years the report is asked for
ReportYears == {2023, 2024}

\* bills posted while the report is watched: two forms for the same type and
\* consumption month with different received dates, a bill received in the
\* year after its consumption month, a type that does not exist
ReportBillForms ==
    LET a == RawAmount(TRUE, 4550)
    IN  {BillForm(b, "electricity", RawDate("%Y-%m", 2023, 11, 0),
                  RawDate("%Y-%m-%d", 2023, 12, 20), a, "") : b \in {None, Some(1)}}
        \cup {BillForm(None, "electricity", RawDate("%Y-%m", 2023, 11, 0),
                       RawDate("%Y-%m-%d", 2023, 11, 5), a, ""),
              BillForm(None, "gas", RawDate("%m.%Y", 2023, 12, 0),
                       RawDate("%m/%Y", 2024, 1, 0), a, ""),
              BillForm(None, "internet", RawDate("%Y-%m", 2023, 11, 0),
                       RawDate("%Y-%m-%d", 2023, 12, 20), a, "")}

NextReport ==
    \/ \E form \in ReportBillForms : bill_save(form)
    \/ \E type_id \in TypeIdInputs : utility_type_deactivate(type_id)
    \/ \E month \in MonthInputs : close_month(month)
    \/ Tick

SpecReport == Init /\ [][NextReport]_vars

\* ---- two sessions served concurrently ----
\* Handlers run in worker threads, each with its own session, and nothing
\* locks the store between a handler's reads and its commit: a SELECT opens
\* no transaction, the INSERT or UPDATE is sent when session.commit() flushes.
\* A request is served in two steps, its reads and checks, then its commit;
\* a handler served in one step runs between the steps of the other session.

RaceBillForms ==
    {BillForm(None, "electricity", RawDate("%Y-%m", 2023, 11, 0),
              RawDate("%Y-%m-%d", 2023, 12, 20), RawAmount(TRUE, 4550), ""),
     BillForm(None, "internet", RawDate("%Y-%m", 2023, 11, 0),
              RawDate("%Y-%m-%d", 2023, 12, 20), RawAmount(TRUE, 4550), "")}

RaceMonths == {RawDate("%Y-%m", 2023, 12, 0)}

RaceApartmentNames == {<<"A">>, <<"B">>}

\* bill_save up to the assignments: everything it reads and checks
save_read(s, form) ==
    /\ requests[s] = Idle
    /\ ~form.bill_id.given
    /\ \E r \in {BillSaveResult(form, bills, billingMonths, settings, utilityTypes, today)} :
          IF r.status # 303
          THEN /\ response' = Response("bill_save", r.status, r.detail, NoDate)
               /\ UNCHANGED requests
          ELSE /\ requests' = [requests EXCEPT ![s] =
                                  [pc |-> "save_pending", op |-> "bill_save",
                                   target |-> r.bills[NewBillId(bills)].billing_month,
                                   row |-> r.bills[NewBillId(bills)],
                                   apartment_id |-> 0]]
               /\ UNCHANGED response
    /\ UNCHANGED <<bills, billingMonths, settings, utilityTypes, today, ticks,
                   apartments, session, calVars>>

\* a mutant: the commit looks at the month again and refuses a Closed one
save_commit_Rechecks(s) ==
    /\ requests[s].pc = "save_pending"
    /\ NewBillId(bills) <= MaxBillId
    /\ IF IsClosed(billingMonths, requests[s].target)
       THEN /\ response' = Response("bill_save", 400, "Obracunski mjesec je zatvoren", NoDate)
            /\ UNCHANGED bills
       ELSE /\ bills' = bills @@ (NewBillId(bills) :> requests[s].row)
            /\ response' = Response("bill_save", 303, "", NoDate)
    /\ requests' = [requests EXCEPT ![s] = Idle]
    /\ UNCHANGED <<billingMonths, settings, utilityTypes, today, ticks,
                   apartments, session, calVars>>

\* bill_save's session.commit(): the new row is inserted
save_commit(s) ==
    /\ requests[s].pc = "save_pending"
    /\ NewBillId(bills) <= MaxBillId
    /\ bills' = bills @@ (NewBillId(bills) :> requests[s].row)
    /\ response' = Response("bill_save", 303, "", NoDate)
    /\ requests' = [requests EXCEPT ![s] = Idle]
    /\ UNCHANGED <<billingMonths, settings, utilityTypes, today, ticks,
                   apartments, session, calVars>>

\* apartment_deactivate up to the assignment: the row and the active count
deactivate_read(s, apartment_id) ==
    /\ requests[s] = Idle
    /\ IF apartment_id \notin DOMAIN apartments
       THEN /\ response' = Response("apartment_deactivate", 404, "Stan nije pronaden.", NoDate)
            /\ UNCHANGED requests
       ELSE IF /\ apartments[apartment_id].is_active
               /\ Cardinality(ActiveApartments(apartments)) <= 1
       THEN /\ response' = Response("apartment_deactivate", 400,
                                    "Mora postojati barem jedan aktivan stan.", NoDate)
            /\ UNCHANGED requests
       ELSE /\ requests' = [requests EXCEPT ![s] =
                               [pc |-> "deactivate_pending", op |-> "apartment_deactivate",
                                target |-> NoDate, row |-> << >>,
                                apartment_id |-> apartment_id]]
            /\ UNCHANGED response
    /\ UNCHANGED <<bills, billingMonths, settings, utilityTypes, today, ticks,
                   apartments, session, calVars>>

\* apartment_deactivate's assignment and session.commit()
deactivate_commit(s) ==
    /\ requests[s].pc = "deactivate_pending"
    /\ apartments' = [apartments EXCEPT ![requests[s].apartment_id].is_active = FALSE]
    /\ response' = Response("apartment_deactivate", 303, "", NoDate)
    /\ requests' = [requests EXCEPT ![s] = Idle]
    /\ UNCHANGED <<bills, billingMonths, settings, utilityTypes, today, ticks,
                   session, calVars>>

\* some session is free to serve a request in one step
SessionFree == \E s \in Sessions : requests[s] = Idle

NextRace ==
    \/ \E s \in Sessions, form \in RaceBillForms : save_read(s, form)
    \/ \E s \in Sessions : save_commit(s)
    \/ \E s \in Sessions, apartment_id \in ApartmentIds : deactivate_read(s, apartment_id)
    \/ \E s \in Sessions : deactivate_commit(s)
    \/ SessionFree /\ \E month \in RaceMonths : close_month(month)
    \/ SessionFree /\ \E name \in RaceApartmentNames : apartment_add(name)

SpecRace == Init /\ [][NextRace]_vars

\* ---- close and reopen served statement by statement ----
\* One request at a time: the handler parses the month, opens a savepoint,
\* works on the session's pending rows, releases the savepoint and commits.
\* bills and billingMonths are the committed store; session holds what is
\* pending inside the open transaction.

TxOps == {"close_month", "reopen_month"}

\* parse the month of the path and enter `with session.begin_nested()`
begin_nested(op, raw) ==
    /\ session.pc = "idle"
    /\ \E r \in {parse_date(raw)} :
          IF ~r.ok
          THEN /\ response' = Response(op, 400, "Neispravan datum", NoDate)
               /\ session' = NoSession
          ELSE /\ session' = [pc |-> "nested", op |-> op, month |-> r.value, now |-> NoDate,
                              billingMonths |-> billingMonths, bills |-> bills,
                              todo |-> {}, dirty |-> FALSE]
               /\ UNCHANGED response
    /\ UNCHANGED <<bills, billingMonths, settings, utilityTypes, today, ticks,
                   apartments, requests, calVars>>

\* billing = ensure_billing_month(session, month)
tx_ensure_billing_month ==
    /\ session.pc = "nested"
    /\ session' = [session EXCEPT !.pc = "ensured",
                      !.billingMonths = ensure_billing_month(session.billingMonths, session.month)]
    /\ UNCHANGED <<bills, billingMonths, settings, utilityTypes, today, ticks, response,
                   apartments, requests, calVars>>

\* billing.is_closed and billing.closed_at are assigned, today is read
tx_set_status ==
    /\ session.pc = "ensured"
    /\ session' = [session EXCEPT !.pc = "status", !.now = today,
                      !.billingMonths[session.month] =
                          IF session.op = "close_month"
                          THEN BillingMonth(TRUE, today)
                          ELSE BillingMonth(FALSE, NoDate)]
    /\ UNCHANGED <<bills, billingMonths, settings, utilityTypes, today, ticks, response,
                   apartments, requests, calVars>>

\* bills = session.scalars(select(UtilityBill).where(billing_month == month)).all()
tx_select_bills ==
    /\ session.pc = "status"
    /\ session' = [session EXCEPT !.pc = "bills",
                      !.todo = {id \in DOMAIN session.bills :
                                   session.bills[id].billing_month = session.month}]
    /\ UNCHANGED <<bills, billingMonths, settings, utilityTypes, today, ticks, response,
                   apartments, requests, calVars>>

\* one turn of `for bill in bills`
tx_update_bill ==
    /\ session.pc = "bills"
    /\ \E id \in session.todo :
          session' = [session EXCEPT !.todo = @ \ {id},
                         !.bills[id].is_paid = (session.op = "close_month"),
                         !.bills[id].paid_date =
                             IF session.op = "close_month" THEN session.now ELSE NoDate]
    /\ UNCHANGED <<bills, billingMonths, settings, utilityTypes, today, ticks, response,
                   apartments, requests, calVars>>

\* the with block ends: pending rows are flushed, the savepoint is released
tx_release ==
    /\ session.pc = "bills"
    /\ session.todo = {}
    /\ session' = [session EXCEPT !.pc = "released"]
    /\ UNCHANGED <<bills, billingMonths, settings, utilityTypes, today, ticks, response,
                   apartments, requests, calVars>>

\* session.commit() and the redirect
tx_commit ==
    /\ session.pc = "released"
    /\ billingMonths' = session.billingMonths
    /\ bills' = session.bills
    /\ response' = Response(session.op, 303, "", session.month)
    /\ session' = NoSession
    /\ UNCHANGED <<settings, utilityTypes, today, ticks, apartments, requests, calVars>>

\* a mutant: the failure leaves what the session had written so far
tx_fail_KeepsWritten ==
    /\ session.pc # "idle"
    /\ billingMonths' = session.billingMonths
    /\ bills' = session.bills
    /\ response' = Response(session.op, 500, "Internal Server Error", session.month)
    /\ session' = [NoSession EXCEPT !.op = session.op, !.month = session.month,
                      !.dirty = (session.bills # bills \/ session.billingMonths # billingMonths)]
    /\ UNCHANGED <<settings, utilityTypes, today, ticks, apartments, requests, calVars>>

\* a statement raises: the exception leaves the with block (rollback to the
\* savepoint) and the handler; get_session closes the session, which rolls
\* the transaction back
tx_fail ==
    /\ session.pc # "idle"
    /\ response' = Response(session.op, 500, "Internal Server Error", session.month)
    /\ session' = [NoSession EXCEPT !.op = session.op, !.month = session.month,
                      !.dirty = (session.bills # bills \/ session.billingMonths # billingMonths)]
    /\ UNCHANGED <<bills, billingMonths, settings, utilityTypes, today, ticks,
                   apartments, requests, calVars>>

TxBillForms == {form \in BillForms : ~form.bill_id.given}

NextTx ==
    \/ \E op \in TxOps, raw \in MonthInputs : begin_nested(op, raw)
    \/ tx_ensure_billing_month
    \/ tx_set_status
    \/ tx_select_bills
    \/ tx_update_bill
    \/ tx_release
    \/ tx_commit
    \/ tx_fail
    \/ session.pc = "idle" /\ \E form \in TxBillForms : bill_save(form)
    \/ Tick

SpecTx == Init /\ [][NextTx]_vars


----------------------------------------------------------------------------
(* The calendar harness *)

CalComputeBillingMonth ==
    /\ calOps = << >>
    /\ calOps' = <<"compute_billing_month">>
    /\ calOut' = compute_billing_month(calIn, calCut)
    /\ UNCHANGED <<calIn, calCut, storeVars>>

CalCurrentBillingMonth ==
    /\ calOps = << >>
    /\ calOps' = <<"current_billing_month">>
    /\ calOut' = current_billing_month(calIn, calCut)
    /\ UNCHANGED <<calIn, calCut, storeVars>>

CalNextMonth ==
    /\ Len(calOps) < 2
    /\ \A i \in 1..Len(calOps) : calOps[i] \in {"next_month", "prev_month"}
    /\ calOps' = Append(calOps, "next_month")
    /\ calOut' = next_month(IF calOps = << >> THEN calIn ELSE calOut)
    /\ UNCHANGED <<calIn, calCut, storeVars>>

CalPrevMonth ==
    /\ Len(calOps) < 2
    /\ \A i \in 1..Len(calOps) : calOps[i] \in {"next_month", "prev_month"}
    /\ calOps' = Append(calOps, "prev_month")
    /\ calOut' = prev_month(IF calOps = << >> THEN calIn ELSE calOut)
    /\ UNCHANGED <<calIn, calCut, storeVars>>

InitCal ==
    /\ InitStore
    /\ calIn \in CalDates
    /\ calCut \in CalCutoffs
    /\ calOps = << >>
    /\ calOut = NoDate

NextCal ==
    \/ CalComputeBillingMonth
    \/ CalCurrentBillingMonth
    \/ CalNextMonth
    \/ CalPrevMonth

SpecCal == InitCal /\ [][NextCal]_vars

----------------------------------------------------------------------------
(* Properties of the billing calendar, checked under SpecCal *)

\* a first of month counted in months, and back: the month arithmetic the
\* properties are stated in
MonthIndex(d) == d.year * 12 + (d.month - 1)
MonthOfIndex(i) == Date(i \div 12, (i % 12) + 1, 1)

\* C1: for every date d and cutoff c in 1..28, compute_billing_month(d, c) is
\* first_of_month(d) when d.day <= c and next_month(first_of_month(d))
\* otherwise: day 1 of d's month, or of the calendar month after it;
\* (2024-03-10, 10) gives 2024-03-01 and (2024-03-11, 10) gives 2024-04-01.
C1_ComputeBillingMonth ==
    calOps = <<"compute_billing_month">> =>
        /\ calOut = IF calIn.day <= calCut THEN first_of_month(calIn)
                    ELSE next_month(first_of_month(calIn))
        /\ calOut = IF calIn.day <= calCut THEN MonthOfIndex(MonthIndex(calIn))
                    ELSE MonthOfIndex(MonthIndex(calIn) + 1)
        /\ (calIn = Date(2024, 3, 10) /\ calCut = 10) => calOut = Date(2024, 3, 1)
        /\ (calIn = Date(2024, 3, 11) /\ calCut = 10) => calOut = Date(2024, 4, 1)

\* a date past the cutoff has been rolled into the next month
C1_Witness ==
    /\ calOps = <<"compute_billing_month">>
    /\ calIn = Date(2024, 3, 11)
    /\ calCut = 10
    /\ calOut = Date(2024, 4, 1)

\* C2: for every first-of-month m, next_month(prev_month(m)) = m and
\* prev_month(next_month(m)) = m, January and December included.
C2_RoundTrip ==
    (calIn.day = 1 /\ calOps \in {<<"prev_month", "next_month">>,
                                  <<"next_month", "prev_month">>})
        => calOut = calIn

\* January stepped back into the previous year and forward again
C2_Witness ==
    /\ calIn = Date(2024, 1, 1)
    /\ calOps = <<"prev_month", "next_month">>
    /\ calOut = Date(2024, 1, 1)

----------------------------------------------------------------------------
(* Properties of the month ledger and the bill handlers, checked under Spec *)

BillsOf(bs, month) == {id \in DOMAIN bs : bs[id].billing_month = month}

Rejected(resp) == resp.status \in {400, 404}

\* the request names a bill that exists, so bill_save treats it as an edit
EditsExisting(form, bs) ==
    form.bill_id.given /\ form.bill_id.v # 0 /\ form.bill_id.v \in DOMAIN bs

\* the billing month bill_save computes for the form is Closed
TargetsClosed(form) ==
    /\ parse_date(form.received_date).ok
    /\ IsClosed(billingMonths,
                BillingMonthOf(parse_date(form.received_date).value, settings))

\* C3: in every reachable state, every bill whose billing month is Closed is
\* paid (is_paid with a paid date): no unpaid bill sits in a Closed month.
C3_ClosedMonthBillsPaid ==
    \A id \in DOMAIN bills :
        IsClosed(billingMonths, bills[id].billing_month)
            => bills[id].is_paid /\ bills[id].paid_date # NoDate

\* C4: a bill_save that does not edit an existing bill (bill_id absent, 0 or
\* any other value) and targets a Closed month is rejected and leaves the set
\* of bills unchanged.
C4_NoInsertIntoClosed ==
    [][\A form \in BillForms :
        (~EditsExisting(form, bills) /\ TargetsClosed(form) /\ bill_save(form))
            => (Rejected(response') /\ bills' = bills)]_vars

\* what bill_save answers to the form in the current state
SaveOutcome(form) ==
    BillSaveResult(form, bills, billingMonths, settings, utilityTypes, today)

\* C5: a bill_save that edits an existing bill whose billing month is Closed
\* is rejected, and every field of that bill is the same afterwards.
C5_ClosedEditRejected ==
    \A form \in BillForms :
        (/\ EditsExisting(form, bills)
         /\ IsClosed(billingMonths, bills[form.bill_id.v].billing_month))
            => \A r \in {SaveOutcome(form)} :
                  /\ r.status \in {400, 404}
                  /\ form.bill_id.v \in DOMAIN r.bills
                  /\ r.bills[form.bill_id.v] = bills[form.bill_id.v]

\* an edit of a paid bill of a Closed month has just been refused
C5_Witness ==
    /\ response.op = "bill_save"
    /\ response.detail = "Racun iz zatvorenog mjeseca nije moguce mijenjati"
    /\ \E id \in DOMAIN bills :
          IsClosed(billingMonths, bills[id].billing_month) /\ bills[id].is_paid

\* C6: a bill_save that edits a bill of an Open month so that its new billing
\* month would be a different, Closed month is rejected, and the bill keeps
\* its billing month and all other fields.
C6_MoveIntoClosedRejected ==
    \A form \in BillForms :
        (/\ EditsExisting(form, bills)
         /\ ~IsClosed(billingMonths, bills[form.bill_id.v].billing_month)
         /\ TargetsClosed(form)
         /\ BillingMonthOf(parse_date(form.received_date).value, settings)
                # bills[form.bill_id.v].billing_month)
            => \A r \in {SaveOutcome(form)} :
                  /\ r.status \in {400, 404}
                  /\ form.bill_id.v \in DOMAIN r.bills
                  /\ r.bills[form.bill_id.v] = bills[form.bill_id.v]

\* a move of a bill of an open month into a Closed month has just been refused
C6_Witness ==
    /\ response.op = "bill_save"
    /\ response.detail = "Ciljani obracunski mjesec je zatvoren"
    /\ \E id \in DOMAIN bills : ~IsClosed(billingMonths, bills[id].billing_month)
    /\ \E month \in DOMAIN billingMonths : billingMonths[month].is_closed

\* what bill_delete answers for the bill id in the current state
DeleteOutcome(bill_id) == BillDeleteResult(bill_id, bills, billingMonths)

\* C7: bill_delete of a bill whose billing month is Closed is rejected and the
\* bill is still there unchanged; bill_delete of a bill whose month is Open or
\* has no status record removes exactly that bill.
C7_DeleteRespectsClosed ==
    \A bill_id \in DOMAIN bills :
        \A r \in {DeleteOutcome(bill_id)} :
            IF IsClosed(billingMonths, bills[bill_id].billing_month)
            THEN r.status \in {400, 404} /\ r.bills = bills
            ELSE /\ r.status = 303
                 /\ DOMAIN r.bills = DOMAIN bills \ {bill_id}
                 /\ \A id \in DOMAIN bills \ {bill_id} : r.bills[id] = bills[id]

\* the delete of a bill of a Closed month has just been refused
C7_Witness ==
    /\ response.op = "bill_delete"
    /\ response.status = 400
    /\ \E id \in DOMAIN bills :
          IsClosed(billingMonths, bills[id].billing_month) /\ bills[id].is_paid

\* C8: after close(m) completes, m has a status record that is Closed with a
\* closing timestamp, and every bill whose billing month is m is paid with
\* paid date the date of the close, whether or not m had a status record.
\* (The state is the one close_month leaves until the next request is served;
\* the date of the close is the one closed_at records.)
C8_CloseSettles ==
    (response.op = "close_month" /\ response.status = 303)
        => LET m == response.month
           IN  /\ m \in DOMAIN billingMonths
               /\ billingMonths[m].is_closed
               /\ billingMonths[m].closed_at # NoDate
               /\ \A id \in BillsOf(bills, m) :
                     /\ bills[id].is_paid
                     /\ bills[id].paid_date = billingMonths[m].closed_at

\* a month holding a bill has just been closed and the bill stamped paid today
C8_Witness ==
    /\ response.op = "close_month"
    /\ response.status = 303
    /\ IsClosed(billingMonths, response.month)
    /\ billingMonths[response.month].closed_at = today
    /\ \E id \in BillsOf(bills, response.month) :
          bills[id].is_paid /\ bills[id].paid_date = today

\* C9: after reopen(m) completes, m's status is Open with no closing
\* timestamp, and every bill whose billing month is m is unpaid with no paid
\* date.
C9_ReopenUnsettles ==
    (response.op = "reopen_month" /\ response.status = 303)
        => LET m == response.month
           IN  /\ m \in DOMAIN billingMonths
               /\ ~billingMonths[m].is_closed
               /\ billingMonths[m].closed_at = NoDate
               /\ \A id \in BillsOf(bills, m) :
                     ~bills[id].is_paid /\ bills[id].paid_date = NoDate

\* a month holding a bill has just been reopened while another month stays closed
C9_Witness ==
    /\ response.op = "reopen_month"
    /\ response.status = 303
    /\ response.month \in DOMAIN billingMonths
    /\ ~billingMonths[response.month].is_closed
    /\ \E id \in BillsOf(bills, response.month) : ~bills[id].is_paid
    /\ \E id \in DOMAIN bills : bills[id].is_paid

\* a close_month served right after a close_month of the same month: the
\* second of two calls close(m)
SecondClose ==
    /\ response.op = "close_month"
    /\ response.status = 303
    /\ response' = response
    /\ \E month \in MonthInputs : close_month(month)

\* C10: closing is idempotent: close(m) called twice yields the same end state
\* as calling it once (status Closed, all bills in m paid, same paid dates).
C10_CloseTwiceSameState ==
    [][SecondClose =>
        /\ IsClosed(billingMonths', response'.month)
        /\ bills' = bills]_vars

\* C10 as amended: close(m) called twice leaves m Closed and every bill of m
\* paid and changes nothing but paid dates and the closing timestamp; the
\* second call stamps the bills of m with its own date, so the end state is
\* that of one call exactly when both calls are made on the same date.
C10_CloseTwiceRestamps ==
    [][SecondClose =>
        LET m == response'.month
        IN  /\ IsClosed(billingMonths', m)
            /\ DOMAIN billingMonths' = DOMAIN billingMonths
            /\ \A k \in DOMAIN billingMonths \ {m} : billingMonths'[k] = billingMonths[k]
            /\ DOMAIN bills' = DOMAIN bills
            /\ \A id \in DOMAIN bills :
                  /\ bills'[id] = [bills[id] EXCEPT !.paid_date = bills'[id].paid_date]
                  /\ bills[id].billing_month # m => bills'[id] = bills[id]
                  /\ bills[id].billing_month = m =>
                        bills'[id].is_paid /\ bills'[id].paid_date = today
            /\ (bills' = bills) <=>
                  (BillsOf(bills, m) = {} \/ billingMonths[m].closed_at = today)]_vars

\* a month holding a bill was closed, a day has passed and close is about to
\* be called on it again: its bills still carry the first close's date
C10_Witness ==
    /\ response.op = "close_month"
    /\ response.status = 303
    /\ IsClosed(billingMonths, response.month)
    /\ billingMonths[response.month].closed_at # today
    /\ \E id \in BillsOf(bills, response.month) :
          bills[id].is_paid /\ bills[id].paid_date # today

\* the store after close(m) followed by reopen(m), both applied to the
\* current state
CloseThenReopen(m) ==
    reopen_billing_month(close_billing_month(billingMonths, bills, m, today).billingMonths,
                         close_billing_month(billingMonths, bills, m, today).bills, m)

\* the months close_month and reopen_month can be asked for
RequestMonths == {parse_date(raw).value : raw \in {x \in MonthInputs : parse_date(x).ok}}

\* C11: reopen(m) applied after close(m) restores every bill of m to the paid
\* flag and paid date it had immediately before the close and leaves m Open,
\* for every reachable pre-close state.
C11_ReopenRestores ==
    \A m \in RequestMonths :
        \A r \in {CloseThenReopen(m)} :
            /\ m \in DOMAIN r.billingMonths /\ ~r.billingMonths[m].is_closed
            /\ \A id \in BillsOf(bills, m) :
                  /\ r.bills[id].is_paid = bills[id].is_paid
                  /\ r.bills[id].paid_date = bills[id].paid_date

\* C11 as amended: reopen(m) applied after close(m) leaves m Open without a
\* closing timestamp and every bill of m unpaid with no paid date, and changes
\* no other field and no other bill; a bill of m is restored to its pre-close
\* paid flag and paid date exactly when it was unpaid before the close, which
\* is every bill of m when m was not Closed before the close.
C11_ReopenClearsSettlement ==
    \A m \in RequestMonths :
        \A r \in {CloseThenReopen(m)} :
            /\ r.billingMonths[m] = BillingMonth(FALSE, NoDate)
            /\ DOMAIN r.bills = DOMAIN bills
            /\ \A id \in DOMAIN bills :
                  IF bills[id].billing_month = m
                  THEN /\ r.bills[id] = [bills[id] EXCEPT !.is_paid = FALSE,
                                                          !.paid_date = NoDate]
                       /\ (r.bills[id] = bills[id]) <=> ~bills[id].is_paid
                  ELSE r.bills[id] = bills[id]
            /\ ~IsClosed(billingMonths, m) => r.bills = bills

\* a month holding two bills has been reopened: both are unpaid again
C11_Witness ==
    /\ response.op = "reopen_month"
    /\ response.status = 303
    /\ response.month \in DOMAIN billingMonths
    /\ billingMonths[response.month] = BillingMonth(FALSE, NoDate)
    /\ \E i, j \in BillsOf(bills, response.month) :
          i # j /\ ~bills[i].is_paid /\ ~bills[j].is_paid

\* what the whole operation of the open session makes of the committed store
TxWhole ==
    IF session.op = "close_month"
    THEN close_billing_month(billingMonths, bills, session.month, session.now)
    ELSE reopen_billing_month(billingMonths, bills, session.month)

\* C12: a close or reopen is atomic against the store: a step of the open
\* transaction either leaves the committed months and bills exactly as they
\* were, or is the commit and installs the whole result (status record and
\* every bill of the month); a failure at any stage leaves them unchanged.
C12_Atomic ==
    [][ session.pc # "idle" =>
          /\ \/ billingMonths' = billingMonths /\ bills' = bills
             \/ /\ session.pc = "released" /\ session' = NoSession
                /\ response' = Response(session.op, 303, "", session.month)
                /\ \A r \in {TxWhole} :
                      billingMonths' = r.billingMonths /\ bills' = r.bills
          /\ (session'.pc = "idle" /\ response'.status = 500) =>
                (billingMonths' = billingMonths /\ bills' = bills) ]_vars

\* a close failed after the session had already changed rows, and the store
\* still holds an unpaid bill in the still open month
C12_Witness ==
    /\ session.pc = "idle" /\ session.dirty
    /\ response = Response("close_month", 500, "Internal Server Error", session.month)
    /\ ~IsClosed(billingMonths, session.month)
    /\ \E id \in BillsOf(bills, session.month) : ~bills[id].is_paid


\* C13: apartment_deactivate on an active unit is rejected with no change
\* when it is the only active unit, and succeeds when at least two units are
\* active, after which the unit is inactive and absent from the active units.
C13_DeactivateKeepsOne ==
    [][ \A id \in ApartmentIds :
          (/\ id \in DOMAIN apartments
           /\ apartments[id].is_active
           /\ apartment_deactivate(id)) =>
              IF Cardinality(ActiveApartments(apartments)) = 1
              THEN /\ response'.status = 400
                   /\ apartments' = apartments
              ELSE /\ Cardinality(ActiveApartments(apartments)) >= 2
                   /\ response'.status = 303
                   /\ ~apartments'[id].is_active
                   /\ ActiveApartments(apartments') = ActiveApartments(apartments) \ {id}
                   /\ DOMAIN apartments' = DOMAIN apartments
                   /\ \A other \in DOMAIN apartments \ {id} :
                         apartments'[other] = apartments[other] ]_vars

\* the last active unit was refused after another unit had been deactivated
C13_Witness ==
    /\ response = Response("apartment_deactivate", 400,
                           "Mora postojati barem jedan aktivan stan.", NoDate)
    /\ Cardinality(ActiveApartments(apartments)) = 1
    /\ \E id \in DOMAIN apartments : ~apartments[id].is_active

\* C14: in every reachable state, starting from the state init_db produces
\* and under any apartment_add and apartment_deactivate requests, at least
\* one unit is active.
C14_SomeUnitActive == ActiveApartments(apartments) # {}

ActiveTypes == {c \in DOMAIN utilityTypes : utilityTypes[c]}

\* the bills a report row is about
RowBills(row) ==
    {id \in DOMAIN bills : /\ bills[id].utility_type = row.utility_type
                           /\ bills[id].consumption_month = row.consumption_month}

\* the rows of a report as a set
RowSet(rows) == {rows[i] : i \in DOMAIN rows}

\* C15: expected_rows(year) returns exactly 12 rows for each active utility
\* type and none for an inactive one, one per calendar month of that year,
\* and a row's received flag is true exactly when some bill has that type
\* and that consumption month, whatever the bill's billing month.
C15_ExpectedRows ==
    \A year \in ReportYears :
        \A rows \in {RowSet(expected_rows(bills, utilityTypes, year))} :
            /\ Len(expected_rows(bills, utilityTypes, year)) = 12 * Cardinality(ActiveTypes)
            /\ Cardinality(rows) = 12 * Cardinality(ActiveTypes)
            /\ \A c \in ActiveTypes, m \in 1 .. 12 :
                  Cardinality({row \in rows :
                                  /\ row.utility_type = c
                                  /\ row.consumption_month = Date(year, m, 1)}) = 1
            /\ \A row \in rows :
                  /\ row.utility_type \in ActiveTypes
                  /\ row.received <=> (RowBills(row) # {})

\* the report of 2023 has a received row for a bill billed in 2024, and a
\* bill of a deactivated type has no row
C15_Witness ==
    /\ \E id \in DOMAIN bills :
          /\ bills[id].utility_type \in ActiveTypes
          /\ bills[id].consumption_month.year = 2023
          /\ bills[id].billing_month.year = 2024
          /\ \E row \in RowSet(expected_rows(bills, utilityTypes, 2023)) :
                row.received /\ id \in RowBills(row)
    /\ \E id \in DOMAIN bills : bills[id].utility_type \notin ActiveTypes

\* C16: in each row first_received_date is the least received date over the
\* bills of that type and consumption month, absent when there is none, and
\* charged is true exactly when one of those bills is paid.
C16_FirstReceivedAndCharged ==
    \A year \in ReportYears :
        \A row \in RowSet(expected_rows(bills, utilityTypes, year)) :
            /\ (RowBills(row) = {}) => row.first_received_date = NoDate
            /\ (RowBills(row) # {}) =>
                  /\ \E id \in RowBills(row) :
                        row.first_received_date = bills[id].received_date
                  /\ \A id \in RowBills(row) :
                        ~DateLess(bills[id].received_date, row.first_received_date)
            /\ row.charged <=> \E id \in RowBills(row) : bills[id].is_paid

\* two bills of one type and consumption month, received on different dates,
\* the later one paid and the earlier one not
C16_Witness ==
    \E i, j \in DOMAIN bills :
        /\ bills[i].utility_type = bills[j].utility_type
        /\ bills[i].utility_type \in ActiveTypes
        /\ bills[i].consumption_month = bills[j].consumption_month
        /\ DateLess(bills[i].received_date, bills[j].received_date)
        /\ ~bills[i].is_paid /\ bills[j].is_paid

\* C20: a bill_save naming a utility type that is inactive or does not exist
\* is rejected and creates or modifies no bill, and deactivating a type
\* deletes and alters no bill, those that reference the type included.
C20_InactiveTypeGuard ==
    [][ /\ \A form \in ReportBillForms :
              form.utility_type \notin ActiveTypes =>
                  \A r \in {SaveOutcome(form)} : r.status = 400 /\ r.bills = bills
        /\ (\E type_id \in TypeIdInputs : utility_type_deactivate(type_id)) =>
              bills' = bills ]_vars

\* a save naming a deactivated type has just been refused while a bill that
\* references a deactivated type is still in the store
C20_Witness ==
    /\ response.op = "bill_save"
    /\ response.status = 400
    /\ response.detail = "Odabrani tip rezije nije valjan"
    /\ ~utilityTypes["electricity"] /\ ~utilityTypes["gas"]
    /\ \E id \in DOMAIN bills : bills[id].utility_type = "electricity"

\* C17: the stored cutoff day is within 1..28 in every state, and a
\* settings_save whose billing_day is below 1 or above 28 is rejected and
\* leaves rent, cutoff day and active year as they were.
C17_CutoffInRange ==
    [][ /\ settings.billing_day \in 1 .. 28
        /\ settings'.billing_day \in 1 .. 28
        /\ \A form \in SettingsForms :
              ((form.billing_day < 1 \/ form.billing_day > 28) /\ settings_save(form)) =>
                  /\ response'.status = 400
                  /\ settings' = settings ]_vars

\* a cutoff day out of range was refused after an earlier save had been stored
C17_Witness ==
    /\ response = Response("settings_save", 400,
                           "Dan obracuna mora biti izmedu 1 i 28.", NoDate)
    /\ settings = Setting(50000, 28, 2024)

\* C18: in every reachable state every stored bill's consumption month and
\* billing month, and every month-status key, is a first-of-month date.
C18_MonthsNormalized ==
    /\ \A id \in DOMAIN bills :
          /\ bills[id].consumption_month.day = 1
          /\ bills[id].billing_month.day = 1
          /\ bills[id].consumption_month.month \in 1 .. 12
          /\ bills[id].billing_month.month \in 1 .. 12
    /\ \A month \in DOMAIN billingMonths : month.day = 1 /\ month.month \in 1 .. 12

\* a month status was created from a path that named a day inside the month,
\* and a bill whose form named a day of receipt is stored
C18_Witness ==
    /\ Date(2024, 1, 1) \in DOMAIN billingMonths
    /\ \E id \in DOMAIN bills :
          bills[id].utility_type = "electricity" /\ bills[id].billing_month = Date(2023, 12, 1)

\* C19: a bill's billing month changes only in a step that is a bill_save of
\* that bill with a received date different from the stored one; a re-save
\* with the same received date and every other request (a settings_save that
\* changes the cutoff, close, reopen, saves of other bills) leave it unchanged.
C19_BillingMonthMoves ==
    [][ \A id \in DOMAIN bills \cap DOMAIN bills' :
          bills'[id].billing_month # bills[id].billing_month =>
              /\ response'.op = "bill_save"
              /\ response'.status = 303
              /\ bills'[id].received_date # bills[id].received_date
              /\ \A other \in (DOMAIN bills \cap DOMAIN bills') \ {id} :
                    bills'[other] = bills[other] ]_vars

\* bill 1, created in December 2023 or January 2024, has been re-saved with a
\* received date in November and sits in that month, after the cutoff day
\* had been changed and next to another bill
C19_Witness ==
    /\ 1 \in DOMAIN bills /\ 2 \in DOMAIN bills
    /\ bills[1].note = "late"
    /\ bills[1].received_date = Date(2023, 11, 1)
    /\ bills[1].billing_month = Date(2023, 11, 1)
    /\ settings.billing_day = 28

\* the form passes every check bill_save makes before it looks the bill up
PassesValidation(form) ==
    /\ ~TypeRejected(utilityTypes, form)
    /\ ~InputRejected(parse_month(form.consumption_month), parse_date(form.received_date),
                      form.amount, today)

\* the tables of the store
Tables == <<bills, billingMonths, settings, utilityTypes, apartments>>

\* C21: a request that references a bill, utility-type or unit id that does
\* not exist (a bill_save edit, bill_delete, utility_type_deactivate,
\* apartment_deactivate) reports not-found and leaves the whole store unchanged.
C21_NotFound ==
    [][ /\ \A form \in BillForms :
              (/\ form.bill_id.given
               /\ form.bill_id.v \notin DOMAIN bills
               /\ PassesValidation(form)
               /\ bill_save(form)) =>
                  response'.status = 404 /\ Tables' = Tables
        /\ \A bill_id \in 0 .. MaxBillId :
              (bill_id \notin DOMAIN bills /\ bill_delete(bill_id)) =>
                  response'.status = 404 /\ Tables' = Tables
        /\ \A type_id \in TypeIdInputs :
              (type_id \notin 1 .. Len(UtilityTypeRows) /\ utility_type_deactivate(type_id)) =>
                  response'.status = 404 /\ Tables' = Tables
        /\ \A apartment_id \in ApartmentIds :
              (apartment_id \notin DOMAIN apartments /\ apartment_deactivate(apartment_id)) =>
                  response'.status = 404 /\ Tables' = Tables ]_vars

\* the date a form field names, as written
Submitted(raw) == strptime(raw, candidates[first_match(raw, 1)]).value

\* the id under which a successful bill_save of the form stores its bill
SavedId(form) ==
    IF EditsExisting(form, bills) THEN form.bill_id.v ELSE NewBillId(bills)

\* C22: after a successful bill_save submitted with received date d while the
\* configured cutoff is c, the stored bill has received date d and billing
\* month compute_billing_month(d, c); a bill submitted with a day of month
\* greater than c is stored under the following calendar month.
C22_SavedBillingMonth ==
    \A form \in ValidBillForms :
        \A r \in {SaveOutcome(form)} :
            r.status = 303 =>
                \A d \in {Submitted(form.received_date)} :
                    /\ r.bills[SavedId(form)].received_date = d
                    /\ r.bills[SavedId(form)].billing_month =
                           compute_billing_month(d, settings.billing_day)
                    /\ d.day > settings.billing_day =>
                           r.bills[SavedId(form)].billing_month = next_month(d)

\* C23: for every date d, on any day of its month, next_month(d) is day 1 of
\* the calendar month right after d's month and prev_month(d) is day 1 of the
\* month right before, December stepping to January of the next year and
\* January to December of the previous year.
C23_StepFromAnyDay ==
    /\ calOps = <<"next_month">> =>
          /\ calOut = MonthOfIndex(MonthIndex(calIn) + 1)
          /\ calOut.day = 1
          /\ calOut = IF calIn.month = 12 THEN Date(calIn.year + 1, 1, 1)
                      ELSE Date(calIn.year, calIn.month + 1, 1)
    /\ calOps = <<"prev_month">> =>
          /\ calOut = MonthOfIndex(MonthIndex(calIn) - 1)
          /\ calOut.day = 1
          /\ calOut = IF calIn.month = 1 THEN Date(calIn.year - 1, 12, 1)
                      ELSE Date(calIn.year, calIn.month - 1, 1)

\* a day late in January stepped back into December of the year before
C23_Witness ==
    /\ calIn = Date(2024, 1, 31)
    /\ calOps = <<"prev_month">>
    /\ calOut = Date(2023, 12, 1)

\* C24: current_billing_month(t, c) equals compute_billing_month(t, c) for
\* every date t and cutoff c: the two operations implement the same rule.
C24_CurrentIsCompute ==
    calOps = <<"current_billing_month">> =>
        /\ calOut = compute_billing_month(calIn, calCut)
        /\ calOut = IF calIn.day <= calCut THEN MonthOfIndex(MonthIndex(calIn))
                    ELSE MonthOfIndex(MonthIndex(calIn) + 1)

\* the last day of a year, past the cutoff, falls into January of the next
C24_Witness ==
    /\ calOps = <<"current_billing_month">>
    /\ calIn = Date(2023, 12, 31)
    /\ calCut = 28
    /\ calOut = Date(2024, 1, 1)

\* C25: month-status records are created lazily and never duplicated: a month
\* has no record until a close or reopen first names it, each of those creates
\* the record if it is absent (a reopen of a month never seen leaves an Open
\* record), bill_save and bill_delete never create one, and there is at most
\* one record per month (the table is keyed by the month).
C25_LazyMonthStatus ==
    [][ /\ \A m \in DOMAIN billingMonths' \ DOMAIN billingMonths :
              /\ response'.op \in {"close_month", "reopen_month"}
              /\ response'.status = 303
              /\ response'.month = m
              /\ billingMonths'[m] = IF response'.op = "close_month"
                                     THEN BillingMonth(TRUE, today)
                                     ELSE BillingMonth(FALSE, NoDate)
        /\ (response'.op \in {"close_month", "reopen_month"} /\ response'.status = 303) =>
              /\ response'.month \in DOMAIN billingMonths'
              /\ DOMAIN billingMonths' = DOMAIN billingMonths \cup {response'.month}
        /\ response'.op \in {"bill_save", "bill_delete"} => billingMonths' = billingMonths
        /\ Cardinality(DOMAIN billingMonths') <= Cardinality(DOMAIN billingMonths) + 1 ]_vars

\* January 2024 got its Open record from a reopen, while December 2023 holds a
\* bill and has no record
C25_Witness ==
    /\ response = Response("reopen_month", 303, "", Date(2024, 1, 1))
    /\ DOMAIN billingMonths = {Date(2024, 1, 1)}
    /\ billingMonths[Date(2024, 1, 1)] = BillingMonth(FALSE, NoDate)
    /\ BillsOf(bills, Date(2023, 12, 1)) # {}

\* C27: in every reachable state a bill is paid only if its billing month is
\* Closed, and a bill has a paid date exactly when its paid flag is true;
\* bills of months that are Open or have no status record are unpaid with no
\* paid date.
C27_PaidOnlyIfClosed ==
    \A id \in DOMAIN bills :
        /\ bills[id].is_paid => IsClosed(billingMonths, bills[id].billing_month)
        /\ bills[id].is_paid <=> (bills[id].paid_date # NoDate)
        /\ ~IsClosed(billingMonths, bills[id].billing_month) =>
              (~bills[id].is_paid /\ bills[id].paid_date = NoDate)

\* a month that was closed and reopened holds a bill that is unpaid again,
\* next to a paid bill of a Closed month
C27_Witness ==
    /\ \E id \in DOMAIN bills :
          /\ bills[id].billing_month \in DOMAIN billingMonths
          /\ ~billingMonths[bills[id].billing_month].is_closed
          /\ ~bills[id].is_paid
    /\ \E id \in DOMAIN bills :
          /\ IsClosed(billingMonths, bills[id].billing_month)
          /\ bills[id].is_paid /\ bills[id].paid_date # NoDate

\* C28: close(m) and reopen(m) change only the status record of m and the paid
\* flag and paid date of the bills whose billing month is m: the bills of
\* every other month, the status of every other month, and each bill's type,
\* consumption month, received date, amount, billing month and note stay as
\* they were, and no bill is created or deleted.
C28_CloseReopenFrame ==
    [][ (response'.op \in {"close_month", "reopen_month"} /\ response'.status = 303) =>
          /\ DOMAIN bills' = DOMAIN bills
          /\ \A id \in DOMAIN bills :
                /\ [bills'[id] EXCEPT !.is_paid = bills[id].is_paid,
                                      !.paid_date = bills[id].paid_date] = bills[id]
                /\ bills[id].billing_month # response'.month => bills'[id] = bills[id]
          /\ DOMAIN billingMonths' = DOMAIN billingMonths \cup {response'.month}
          /\ \A m \in DOMAIN billingMonths \ {response'.month} :
                billingMonths'[m] = billingMonths[m]
          /\ settings' = settings
          /\ utilityTypes' = utilityTypes
          /\ apartments' = apartments ]_vars

\* December 2023 has just been closed and its bill is paid, while the bill of
\* January 2024 is unpaid and that month's Open record is still there
C28_Witness ==
    /\ response = Response("close_month", 303, "", Date(2023, 12, 1))
    /\ \E id \in BillsOf(bills, Date(2023, 12, 1)) : bills[id].is_paid
    /\ \E id \in BillsOf(bills, Date(2024, 1, 1)) : ~bills[id].is_paid
    /\ Date(2024, 1, 1) \in DOMAIN billingMonths
    /\ billingMonths[Date(2024, 1, 1)] = BillingMonth(FALSE, NoDate)

\* C26: with two concurrent request sessions and no locking a race is
\* reachable: when a bill_save has read month m as Open, a close_month(m)
\* then commits and the bill_save commits after it, the committed state has
\* an unpaid bill in the Closed month m; and when two apartment_deactivate
\* requests on the last two active units interleave the same way, the commit
\* of the second leaves no unit active.
C26_Race ==
    [][ \A s \in Sessions :
          /\ (/\ requests[s].pc = "save_pending"
              /\ IsClosed(billingMonths, requests[s].target)
              /\ save_commit(s)) =>
                 /\ response'.status = 303
                 /\ IsClosed(billingMonths', requests[s].target)
                 /\ \E id \in DOMAIN bills' \ DOMAIN bills :
                       /\ bills'[id].billing_month = requests[s].target
                       /\ ~bills'[id].is_paid
          /\ (/\ requests[s].pc = "deactivate_pending"
              /\ ActiveApartments(apartments) = {requests[s].apartment_id}
              /\ deactivate_commit(s)) =>
                 /\ response'.status = 303
                 /\ apartments' # << >>
                 /\ ActiveApartments(apartments') = {} ]_vars

\* both races have happened: an unpaid bill sits in a Closed month, and of
\* two units none is active
C26_Witness ==
    /\ \A s \in Sessions : requests[s] = Idle
    /\ \E id \in DOMAIN bills :
          IsClosed(billingMonths, bills[id].billing_month) /\ ~bills[id].is_paid
    /\ Cardinality(DOMAIN apartments) = 2
    /\ ActiveApartments(apartments) = {}

====
